---- MODULE Spec2Model ----
(***************************************************************************)
(* A model of the finite state machine engine of src/src/fsm.rs:           *)
(* FSM::new (transition table and callback registry), FSM::on_event (the   *)
(* dispatcher and its four callback phases) and the queries get_current,   *)
(* is and can.                                                             *)
(*                                                                         *)
(* A state or an event is represented by its canonical name, a string:     *)
(* the table and the registry are keyed by names only (EKey, CKey).  The   *)
(* state types the repository uses derive Display and AsRef<str> from the  *)
(* same strum attribute (src/src/lib.rs tests test_enum_display and        *)
(* test_enum_as_ref), so to_string() and as_ref() of a state give the same *)
(* name, and Eq on states is equality of names.                            *)
(***************************************************************************)
EXTENDS Integers, Sequences, FiniteSets, TLC

VARIABLES
    initial,      \* argument `initial` of FSM::new
    events,       \* argument `events` of FSM::new: a sequence of EventDesc
    hooks,        \* argument `hooks` of FSM::new: hooks[i] is a HookType, its callback is i
    transitions,  \* FSM.transitions: EKey -> destination state
    callbacks,    \* FSM.callbacks: CKey -> callback
    current,      \* FSM.current
    last          \* the most recent call on the FSM and what it returned

vars == <<initial, events, hooks, transitions, callbacks, current, last>>

----------------------------------------------------------------------------
(* Bounds of the model *)

\* the size of what new is given: the source states of all the rules (the
\* insertions into the table) and the hooks, counted together
MaxInput == 2
\* callbacks that return Err during one on_event call
MaxFail == 2

\* names of states; "" is a legal name and is also the registry's untargeted target
StateNames == {"", "a", "b"}
\* names of events; "a" is also the name of a state
EventNames == {"", "a"}
\* the `args` argument of on_event
ArgValues == {"None", "Some"}

----------------------------------------------------------------------------
(* Types of fsm.rs *)

\* the target of a non-targeted callback (CKey.target, fsm.rs:68-71)
Untargeted == ""

HookKindsTargetedEvent == {"Before", "After"}
HookKindsTargetedState == {"Leave", "Enter"}
HookKindsUntargeted == {"BeforeEvent", "AfterEvent", "LeaveState", "EnterState"}

\* enum HookType: a kind and, for the targeted kinds and Custom, a name
HookType ==
    [kind : HookKindsTargetedEvent, t : EventNames]
    \cup [kind : HookKindsTargetedState, t : StateNames]
    \cup [kind : {"Custom"}, t : StateNames \cup EventNames]
    \cup [kind : HookKindsUntargeted, t : {Untargeted}]

\* enum CallbackType
CallbackType == {"None", "BeforeEvent", "LeaveState", "EnterState", "AfterEvent"}

\* struct EventDesc; src is a Vec in the source, its order and repetitions
\* do not matter to the loop that reads it
EventDesc == [name : EventNames,
              src : {s \in SUBSET StateNames : s # {} /\ Cardinality(s) <= MaxInput},
              dst : StateNames]

EKey(event, src) == [event |-> event, src |-> src]

CKey(target, callback_type) == [target |-> target, callback_type |-> callback_type]

\* struct Event, the value every callback receives
Event(event, src, dst, args) == [event |-> event, src |-> src, dst |-> dst, args |-> args]

\* enum FSMError, and Ok(()); msg is the Display of a callback's error
NoMsg == 0
Ok == [kind |-> "Ok", event |-> "", state |-> "", msg |-> NoMsg]
NoTransition == [kind |-> "NoTransition", event |-> "", state |-> "", msg |-> NoMsg]
NoTransitionWithError(m) == [kind |-> "NoTransitionWithError", event |-> "", state |-> "", msg |-> m]
InternalError(m) == [kind |-> "InternalError", event |-> "", state |-> "", msg |-> m]
UnknownEvent(e) == [kind |-> "UnknownEvent", event |-> e, state |-> "", msg |-> NoMsg]
InvalidEvent(e, s) == [kind |-> "InvalidEvent", event |-> e, state |-> s, msg |-> NoMsg]

\* Insert, were the value of a key already present kept (entry().or_insert)
Insert_KeepsFirst(m, k, v) ==
    [x \in DOMAIN m \cup {k} |-> IF x \in DOMAIN m THEN m[x] ELSE v]

\* HashMap::insert: the later value replaces the earlier one
Insert(m, k, v) == [x \in DOMAIN m \cup {k} |-> IF x = k THEN v ELSE m[x]]

EmptyMap == [x \in {} |-> 0]

----------------------------------------------------------------------------
(* FSM::new *)

\* the first loop of new: all_events
AllEvents(evs) == {evs[i].name : i \in DOMAIN evs}

\* the first loop of new: all_states, filled inside the loop over e.src
AllStates(evs) ==
    UNION {IF evs[i].src = {} THEN {} ELSE evs[i].src \cup {evs[i].dst} : i \in DOMAIN evs}

\* InsertRule, were the destination of a key already present kept
InsertRule_KeepsFirst(t, e) ==
    [k \in DOMAIN t \cup {EKey(e.name, s) : s \in e.src} |->
        IF k \in DOMAIN t THEN t[k] ELSE e.dst]

\* one iteration of the first loop: an entry (e.name, src) -> e.dst per source
InsertRule(t, e) ==
    [k \in DOMAIN t \cup {EKey(e.name, s) : s \in e.src} |->
        IF k.event = e.name /\ k.src \in e.src THEN e.dst ELSE t[k]]

RECURSIVE BuildTransitions(_, _)
\* the first loop of new over events[1..n]
BuildTransitions(evs, n) ==
    IF n = 0 THEN EmptyMap
    ELSE InsertRule(BuildTransitions(evs, n - 1), evs[n])

\* CustomType, were the known events asked before the known states
CustomType_EventFirst(t, all_states, all_events) ==
    IF t \in all_events THEN "AfterEvent"
    ELSE IF t \in all_states THEN "EnterState"
    ELSE "None"

\* the phase a Custom(t) hook is given: a known state first, then a known event
CustomType(t, all_states, all_events) ==
    IF t \in all_states THEN "EnterState"
    ELSE IF t \in all_events THEN "AfterEvent"
    ELSE "None"

\* the match of new: the registry key of a hook
Resolve(h, all_states, all_events) ==
    CASE h.kind = "BeforeEvent" -> CKey(Untargeted, "BeforeEvent")
      [] h.kind = "AfterEvent" -> CKey(Untargeted, "AfterEvent")
      [] h.kind = "Before" -> CKey(h.t, "BeforeEvent")
      [] h.kind = "After" -> CKey(h.t, "AfterEvent")
      [] h.kind = "LeaveState" -> CKey(Untargeted, "LeaveState")
      [] h.kind = "EnterState" -> CKey(Untargeted, "EnterState")
      [] h.kind = "Leave" -> CKey(h.t, "LeaveState")
      [] h.kind = "Enter" -> CKey(h.t, "EnterState")
      [] h.kind = "Custom" -> CKey(h.t, CustomType(h.t, all_states, all_events))

\* one iteration of the second loop: hook hs[n] with its callback n
InsertHook(c, h, f, all_states, all_events) ==
    LET k == Resolve(h, all_states, all_events)
    IN  IF k.callback_type # "None" THEN Insert(c, k, f) ELSE c

RECURSIVE BuildCallbacks(_, _, _, _)
\* the second loop of new over hooks[1..n]
BuildCallbacks(hs, n, all_states, all_events) ==
    IF n = 0 THEN EmptyMap
    ELSE InsertHook(BuildCallbacks(hs, n - 1, all_states, all_events),
                    hs[n], n, all_states, all_events)

\* New, were current the source of the first rule rather than `initial`
New_StartsAtFirstSource(init, evs, hs) ==
    [current |-> IF evs = <<>> THEN init ELSE CHOOSE x \in evs[1].src : TRUE,
     transitions |-> BuildTransitions(evs, Len(evs)),
     callbacks |-> BuildCallbacks(hs, Len(hs), AllStates(evs), AllEvents(evs))]

\* FSM::new: the fields of the FSM it returns
New(init, evs, hs) ==
    [current |-> init,
     transitions |-> BuildTransitions(evs, Len(evs)),
     callbacks |-> BuildCallbacks(hs, Len(hs), AllStates(evs), AllEvents(evs))]

----------------------------------------------------------------------------
(* The callback phases of on_event *)

\* the outcome of a phase: err is NoMsg or the message of the callback that
\* failed, calls the invocations made, in order
NoCalls == <<>>

\* Action::call of the callback f found under key k, as it is invoked with
\* event e while the FSM is in state cur; ok tells whether it returned Ok
Invocation(k, f, e, cur, fail) ==
    [key |-> k, f |-> f, e |-> e, cur |-> cur, ok |-> f \notin fail]

\* the Display of the error of callback f
Message(f) == f

\* PhaseCallbacks, were the untargeted callback looked up first
PhaseCallbacks_UntargetedFirst(cbs, target, callback_type, e, cur, fail) ==
    LET k1 == CKey(Untargeted, callback_type)
        k2 == CKey(target, callback_type)
        c1 == IF k1 \in DOMAIN cbs THEN <<Invocation(k1, cbs[k1], e, cur, fail)>> ELSE NoCalls
        c2 == IF k2 \in DOMAIN cbs THEN <<Invocation(k2, cbs[k2], e, cur, fail)>> ELSE NoCalls
    IN  IF k1 \in DOMAIN cbs /\ cbs[k1] \in fail
        THEN [err |-> Message(cbs[k1]), calls |-> c1]
        ELSE IF k2 \in DOMAIN cbs /\ cbs[k2] \in fail
        THEN [err |-> Message(cbs[k2]), calls |-> c1 \o c2]
        ELSE [err |-> NoMsg, calls |-> c1 \o c2]

\* PhaseCallbacks, were the untargeted callback called whatever the targeted
\* one returned, and the first Err returned at the end
PhaseCallbacks_BothCalled(cbs, target, callback_type, e, cur, fail) ==
    LET k1 == CKey(target, callback_type)
        k2 == CKey(Untargeted, callback_type)
        c1 == IF k1 \in DOMAIN cbs THEN <<Invocation(k1, cbs[k1], e, cur, fail)>> ELSE NoCalls
        c2 == IF k2 \in DOMAIN cbs THEN <<Invocation(k2, cbs[k2], e, cur, fail)>> ELSE NoCalls
    IN  IF k1 \in DOMAIN cbs /\ cbs[k1] \in fail
        THEN [err |-> Message(cbs[k1]), calls |-> c1 \o c2]
        ELSE IF k2 \in DOMAIN cbs /\ cbs[k2] \in fail
        THEN [err |-> Message(cbs[k2]), calls |-> c1 \o c2]
        ELSE [err |-> NoMsg, calls |-> c1 \o c2]

\* the body the four phase functions share: the callback of (target, type),
\* then the callback of ("", type); the first Err ends the phase (the ? operator)
PhaseCallbacks(cbs, target, callback_type, e, cur, fail) ==
    LET k1 == CKey(target, callback_type)
        k2 == CKey(Untargeted, callback_type)
        c1 == IF k1 \in DOMAIN cbs THEN <<Invocation(k1, cbs[k1], e, cur, fail)>> ELSE NoCalls
        c2 == IF k2 \in DOMAIN cbs THEN <<Invocation(k2, cbs[k2], e, cur, fail)>> ELSE NoCalls
    IN  IF k1 \in DOMAIN cbs /\ cbs[k1] \in fail
        THEN [err |-> Message(cbs[k1]), calls |-> c1]
        ELSE IF k2 \in DOMAIN cbs /\ cbs[k2] \in fail
        THEN [err |-> Message(cbs[k2]), calls |-> c1 \o c2]
        ELSE [err |-> NoMsg, calls |-> c1 \o c2]

\* before_event_callbacks, were the Err of the targeted callback not returned
\* at once: both callbacks run and the later Err is the one reported
before_event_callbacks_NoAbort(cbs, cur, e, fail) ==
    LET first == PhaseCallbacks(cbs, e.event, "BeforeEvent", e, cur, {})
        k2 == CKey(Untargeted, "BeforeEvent")
        k1 == CKey(e.event, "BeforeEvent")
        calls == [i \in DOMAIN first.calls |->
                     [first.calls[i] EXCEPT !.ok = first.calls[i].f \notin fail]]
    IN  IF k2 \in DOMAIN cbs /\ cbs[k2] \in fail
        THEN [err |-> Message(cbs[k2]), calls |-> calls]
        ELSE IF k1 \in DOMAIN cbs /\ cbs[k1] \in fail
        THEN [err |-> Message(cbs[k1]), calls |-> calls]
        ELSE [err |-> NoMsg, calls |-> calls]

before_event_callbacks(cbs, cur, e, fail) ==
    PhaseCallbacks(cbs, e.event, "BeforeEvent", e, cur, fail)

after_event_callbacks(cbs, cur, e, fail) ==
    PhaseCallbacks(cbs, e.event, "AfterEvent", e, cur, fail)

\* the target is self.current, which is the destination by the time it runs
enter_state_callbacks(cbs, cur, e, fail) ==
    PhaseCallbacks(cbs, cur, "EnterState", e, cur, fail)

\* leave_state_callbacks, were its Err dropped as that of the enter-state phase is
leave_state_callbacks_ErrIgnored(cbs, cur, e, fail) ==
    [err |-> NoMsg, calls |-> PhaseCallbacks(cbs, cur, "LeaveState", e, cur, fail).calls]

leave_state_callbacks(cbs, cur, e, fail) ==
    PhaseCallbacks(cbs, cur, "LeaveState", e, cur, fail)

----------------------------------------------------------------------------
(* FSM::on_event *)

\* what a call of on_event does: the Result it returns, self.current when it
\* returns, the callbacks it invoked and how often it assigned self.current
Outcome(ret, cur, calls, writes) ==
    [ret |-> ret, current |-> cur, calls |-> calls, writes |-> writes]

\* LookupError, were the keys of the table not scanned
LookupError_NoScan(trs, cur, event) == UnknownEvent(event)

\* the closure of ok_or_else: the error of a failed lookup
LookupError(trs, cur, event) ==
    IF \E ekey \in DOMAIN trs : ekey.event = event
    THEN InvalidEvent(event, cur)
    ELSE UnknownEvent(event)

\* Commit, were self.current assigned before the leave-state phase
Commit_AssignsFirst(cbs, cur, dst, e, fail, calls) ==
    LET l == leave_state_callbacks(cbs, cur, e, fail)
    IN  IF l.err # NoMsg
        THEN Outcome(InternalError(l.err), dst, calls \o l.calls, 1)
        ELSE LET n == enter_state_callbacks(cbs, dst, e, fail)
                 a == after_event_callbacks(cbs, dst, e, fail)
             IN  Outcome(Ok, dst, calls \o l.calls \o n.calls \o a.calls, 1)

\* Commit, were the Err of the enter-state phase returned as InternalError
Commit_EnterErrReturned(cbs, cur, dst, e, fail, calls) ==
    LET l == leave_state_callbacks(cbs, cur, e, fail)
    IN  IF l.err # NoMsg
        THEN Outcome(InternalError(l.err), cur, calls \o l.calls, 0)
        ELSE LET n == enter_state_callbacks(cbs, dst, e, fail)
                 a == after_event_callbacks(cbs, dst, e, fail)
             IN  IF n.err # NoMsg
                 THEN Outcome(InternalError(n.err), dst, calls \o l.calls \o n.calls, 1)
                 ELSE Outcome(Ok, dst, calls \o l.calls \o n.calls \o a.calls, 1)

\* Commit, were the state restored when the after-event phase fails
Commit_RolledBack(cbs, cur, dst, e, fail, calls) ==
    LET l == leave_state_callbacks(cbs, cur, e, fail)
    IN  IF l.err # NoMsg
        THEN Outcome(InternalError(l.err), cur, calls \o l.calls, 0)
        ELSE LET n == enter_state_callbacks(cbs, dst, e, fail)
                 a == after_event_callbacks(cbs, dst, e, fail)
             IN  Outcome(Ok, IF a.err # NoMsg THEN cur ELSE dst,
                         calls \o l.calls \o n.calls \o a.calls,
                         IF a.err # NoMsg THEN 2 ELSE 1)

\* Commit, were self.current assigned inside the enter-state phase, where a
\* callback is found
Commit_AssignsInEnter(cbs, cur, dst, e, fail, calls) ==
    LET l == leave_state_callbacks(cbs, cur, e, fail)
    IN  IF l.err # NoMsg
        THEN Outcome(InternalError(l.err), cur, calls \o l.calls, 0)
        ELSE LET n == enter_state_callbacks(cbs, dst, e, fail)
                 to == IF n.calls = NoCalls THEN cur ELSE dst
                 a == after_event_callbacks(cbs, to, e, fail)
             IN  Outcome(Ok, to, calls \o l.calls \o n.calls \o a.calls,
                         IF n.calls = NoCalls THEN 0 ELSE 1)

\* Commit, were src of the event a reference to self.current, read again
\* after the assignment
Commit_SrcFollowsCurrent(cbs, cur, dst, e, fail, calls) ==
    LET l == leave_state_callbacks(cbs, cur, e, fail)
    IN  IF l.err # NoMsg
        THEN Outcome(InternalError(l.err), cur, calls \o l.calls, 0)
        ELSE LET n == enter_state_callbacks(cbs, dst, [e EXCEPT !.src = dst], fail)
                 a == after_event_callbacks(cbs, dst, [e EXCEPT !.src = dst], fail)
             IN  Outcome(Ok, dst, calls \o l.calls \o n.calls \o a.calls, 1)

\* Commit, were self.current assigned at the end, after the after-event phase
Commit_AssignsLast(cbs, cur, dst, e, fail, calls) ==
    LET l == leave_state_callbacks(cbs, cur, e, fail)
    IN  IF l.err # NoMsg
        THEN Outcome(InternalError(l.err), cur, calls \o l.calls, 0)
        ELSE LET n == enter_state_callbacks(cbs, cur, e, fail)
                 a == after_event_callbacks(cbs, cur, e, fail)
             IN  Outcome(Ok, dst, calls \o l.calls \o n.calls \o a.calls, 1)

\* Commit, were the after-event phase skipped when the enter-state phase fails
Commit_EnterErrSkipsAfter(cbs, cur, dst, e, fail, calls) ==
    LET l == leave_state_callbacks(cbs, cur, e, fail)
    IN  IF l.err # NoMsg
        THEN Outcome(InternalError(l.err), cur, calls \o l.calls, 0)
        ELSE LET n == enter_state_callbacks(cbs, dst, e, fail)
                 a == after_event_callbacks(cbs, dst, e, fail)
             IN  IF n.err # NoMsg
                 THEN Outcome(Ok, dst, calls \o l.calls \o n.calls, 1)
                 ELSE Outcome(Ok, dst, calls \o l.calls \o n.calls \o a.calls, 1)

\* on_event from the point where the leave-state phase starts
Commit(cbs, cur, dst, e, fail, calls) ==
    LET l == leave_state_callbacks(cbs, cur, e, fail)
    IN  IF l.err # NoMsg
        THEN Outcome(InternalError(l.err), cur, calls \o l.calls, 0)
        ELSE LET n == enter_state_callbacks(cbs, dst, e, fail)
                 a == after_event_callbacks(cbs, dst, e, fail)
             IN  Outcome(Ok, dst, calls \o l.calls \o n.calls \o a.calls, 1)

\* AfterBefore, were there no self-transition test
AfterBefore_NoSelfTest(cbs, cur, dst, e, fail, calls) ==
    Commit(cbs, cur, dst, e, fail, calls)

\* AfterBefore, were the self-transition test made after the leave-state phase
AfterBefore_SelfTestAfterLeave(cbs, cur, dst, e, fail, calls) ==
    LET l == leave_state_callbacks(cbs, cur, e, fail)
    IN  IF l.err # NoMsg
        THEN Outcome(InternalError(l.err), cur, calls \o l.calls, 0)
        ELSE IF cur = dst
        THEN LET a == after_event_callbacks(cbs, cur, e, fail)
             IN  IF a.err # NoMsg
                 THEN Outcome(NoTransitionWithError(a.err), cur,
                              calls \o l.calls \o a.calls, 0)
                 ELSE Outcome(NoTransition, cur, calls \o l.calls \o a.calls, 0)
        ELSE LET n == enter_state_callbacks(cbs, dst, e, fail)
                 a == after_event_callbacks(cbs, dst, e, fail)
             IN  Outcome(Ok, dst, calls \o l.calls \o n.calls \o a.calls, 1)

\* on_event from the self-transition test on
AfterBefore(cbs, cur, dst, e, fail, calls) ==
    IF cur = dst
    THEN LET a == after_event_callbacks(cbs, cur, e, fail)
         IN  IF a.err # NoMsg
             THEN Outcome(NoTransitionWithError(a.err), cur, calls \o a.calls, 0)
             ELSE Outcome(NoTransition, cur, calls \o a.calls, 0)
    ELSE Commit(cbs, cur, dst, e, fail, calls)

\* on_event, were the table indexed (transitions[&key]) instead of asked with
\* get: indexing a HashMap with a key it does not have panics
on_event_IndexPanics(trs, cbs, cur, event, args, fail) ==
    IF EKey(event, cur) \notin DOMAIN trs
    THEN Outcome([kind |-> "panic", event |-> event, state |-> cur, msg |-> NoMsg],
                 cur, NoCalls, 0)
    ELSE LET dst == trs[EKey(event, cur)]
             e == Event(event, cur, dst, args)
             b == before_event_callbacks(cbs, cur, e, fail)
         IN  IF b.err # NoMsg
             THEN Outcome(InternalError(b.err), cur, b.calls, 0)
             ELSE AfterBefore(cbs, cur, dst, e, fail, b.calls)

\* on_event, were the before-event phase run before the lookup
on_event_BeforeFirst(trs, cbs, cur, event, args, fail) ==
    LET found == EKey(event, cur) \in DOMAIN trs
        dst == IF found THEN trs[EKey(event, cur)] ELSE cur
        e == Event(event, cur, dst, args)
        b == before_event_callbacks(cbs, cur, e, fail)
    IN  IF ~found
        THEN Outcome(LookupError(trs, cur, event), cur, b.calls, 0)
        ELSE IF b.err # NoMsg
        THEN Outcome(InternalError(b.err), cur, b.calls, 0)
        ELSE AfterBefore(cbs, cur, dst, e, fail, b.calls)

\* on_event(event, args) on an FSM in state cur; fail is the set of callbacks
\* that return Err when this call invokes them
on_event(trs, cbs, cur, event, args, fail) ==
    IF EKey(event, cur) \notin DOMAIN trs
    THEN Outcome(LookupError(trs, cur, event), cur, NoCalls, 0)
    ELSE LET dst == trs[EKey(event, cur)]
             e == Event(event, cur, dst, args)
             b == before_event_callbacks(cbs, cur, e, fail)
         IN  IF b.err # NoMsg
             THEN Outcome(InternalError(b.err), cur, b.calls, 0)
             ELSE AfterBefore(cbs, cur, dst, e, fail, b.calls)

----------------------------------------------------------------------------
(* The queries *)

get_current(cur) == cur

\* is, were the state compared with the first letters of current only, so that
\* the empty name is a prefix of every name
is_Prefix(cur, state) == cur = state \/ state = ""

is(cur, state) == cur = state

\* can, were only the event name looked for
can_AnySource(trs, cur, event) == \E k \in DOMAIN trs : k.event = event

can(trs, cur, event) == EKey(event, cur) \in DOMAIN trs

----------------------------------------------------------------------------
(* The arguments FSM::new is given *)

SeqsUpTo(S, n) == UNION {[1..m -> S] : m \in 0..n}

H(kind, t) == [kind |-> kind, t |-> t]

\* a hook list that registers a callback at every hook point of every name
EveryHook ==
    <<H("Before", ""), H("Before", "a"), H("BeforeEvent", Untargeted),
      H("Leave", ""), H("Leave", "a"), H("Leave", "b"), H("LeaveState", Untargeted),
      H("Enter", ""), H("Enter", "a"), H("Enter", "b"), H("EnterState", Untargeted),
      H("After", ""), H("After", "a"), H("AfterEvent", Untargeted),
      H("Custom", ""), H("Custom", "a"), H("Custom", "b")>>

RECURSIVE Entries(_, _)
\* the insertions into the table that the rules evs[1..n] make
Entries(evs, n) == IF n = 0 THEN 0 ELSE Entries(evs, n - 1) + Cardinality(evs[n].src)

\* the same hooks, given in the opposite order
Reversed(hs) == [i \in DOMAIN hs |-> hs[Len(hs) + 1 - i]]

RuleLists == {evs \in SeqsUpTo(EventDesc, MaxInput) : Entries(evs, Len(evs)) <= MaxInput}

\* the hook lists given with the rules evs: the lists within the size, and with
\* at most one rule the lists that register every hook
HookLists(evs) ==
    SeqsUpTo(HookType, MaxInput - Entries(evs, Len(evs)))
    \cup (IF Len(evs) <= 1 THEN {EveryHook, Reversed(EveryHook)} ELSE {})

\* the callbacks of the registry
Registered(cbs) == {cbs[k] : k \in DOMAIN cbs}

\* the sets of callbacks that may return Err during one call
FailSets(cbs) == {F \in SUBSET Registered(cbs) : Cardinality(F) <= MaxFail}

----------------------------------------------------------------------------
(* The state machine *)

NoRet == [kind |-> "", event |-> "", state |-> "", msg |-> NoMsg]

\* no call is under way: new has returned, or the caller has taken the result
\* of the call before
Idle == [op |-> "", event |-> "", state |-> "", args |-> "None", before |-> "",
         ret |-> NoRet, calls |-> <<>>, writes |-> 0, bool |-> FALSE]

\* the record of a call: the operation, its arguments, self.current before
\* it, and what it returned and did
Call(op, event, state, args, before, ret, calls, writes, bool) ==
    [op |-> op, event |-> event, state |-> state, args |-> args,
     before |-> before, ret |-> ret, calls |-> calls, writes |-> writes, bool |-> bool]

Init ==
    /\ initial \in StateNames
    /\ events \in RuleLists
    /\ hooks \in HookLists(events)
    /\ transitions = New(initial, events, hooks).transitions
    /\ callbacks = New(initial, events, hooks).callbacks
    /\ current = New(initial, events, hooks).current
    /\ last = Idle

\* OnEvent, were a callback taken out of the registry when it is invoked
OnEvent_TakesCallbacks(event, args, fail) ==
    LET o == on_event(transitions, callbacks, current, event, args, fail)
        taken == {o.calls[i].key : i \in DOMAIN o.calls}
    IN  /\ last = Idle
        /\ current' = o.current
        /\ callbacks' = [k \in DOMAIN callbacks \ taken |-> callbacks[k]]
        /\ last' = Call("on_event", event, "", args, current, o.ret, o.calls, o.writes, FALSE)
        /\ UNCHANGED <<initial, events, hooks, transitions>>

OnEvent(event, args, fail) ==
    LET o == on_event(transitions, callbacks, current, event, args, fail)
    IN  /\ last = Idle
        /\ current' = o.current
        /\ last' = Call("on_event", event, "", args, current, o.ret, o.calls, o.writes, FALSE)
        /\ UNCHANGED <<initial, events, hooks, transitions, callbacks>>

GetCurrent ==
    /\ last = Idle
    /\ last' = Call("get_current", "", get_current(current), "None", current, NoRet, NoCalls, 0, FALSE)
    /\ UNCHANGED <<initial, events, hooks, transitions, callbacks, current>>

Is(state) ==
    /\ last = Idle
    /\ last' = Call("is", "", state, "None", current, NoRet, NoCalls, 0, is(current, state))
    /\ UNCHANGED <<initial, events, hooks, transitions, callbacks, current>>

\* Can, were the answer found by dispatching the event
Can_ByDispatch(event) ==
    LET o == on_event(transitions, callbacks, current, event, "None", {})
    IN  /\ last = Idle
        /\ current' = o.current
        /\ last' = Call("can", event, "", "None", current, NoRet, o.calls, o.writes,
                        o.ret.kind \notin {"UnknownEvent", "InvalidEvent"})
        /\ UNCHANGED <<initial, events, hooks, transitions, callbacks>>

Can(event) ==
    /\ last = Idle
    /\ last' = Call("can", event, "", "None", current, NoRet, NoCalls, 0,
                    can(transitions, current, event))
    /\ UNCHANGED <<initial, events, hooks, transitions, callbacks, current>>

\* the caller takes what the call returned; the FSM is ready for the next call
Return ==
    /\ last # Idle
    /\ last' = Idle
    /\ UNCHANGED <<initial, events, hooks, transitions, callbacks, current>>

Next ==
    \/ \E event \in EventNames, args \in ArgValues, fail \in FailSets(callbacks) :
           OnEvent(event, args, fail)
    \/ GetCurrent
    \/ \E state \in StateNames : Is(state)
    \/ \E event \in EventNames : Can(event)
    \/ Return

Spec == Init /\ [][Next]_vars

----------------------------------------------------------------------------
(* Vocabulary of the properties *)

\* the last call was an on_event call
Dispatched == last.op = "on_event"

\* the invocations of the last call whose hook point is of one of the types
Invoked(types) == {i \in DOMAIN last.calls : last.calls[i].key.callback_type \in types}

\* those of them that returned Err
Failed(types) == {i \in Invoked(types) : ~last.calls[i].ok}

\* the first invocation of the last call, among those of the types, that returned Err
FirstFailed(types) == CHOOSE i \in Failed(types) : \A j \in Failed(types) : i <= j

\* the last on_event call found a rule for (event, current)
Found == EKey(last.event, last.before) \in DOMAIN transitions

\* the destination the last on_event call looked up
Dst == transitions[EKey(last.event, last.before)]

\* a real transition: the rule leads to another state
RealTransition == Dispatched /\ Found /\ Dst # last.before

\* a self-transition: the rule leads to the state the FSM is in
SelfTransition == Dispatched /\ Found /\ Dst = last.before

ErrorKinds == {"UnknownEvent", "InvalidEvent", "InternalError", "NoTransition",
               "NoTransitionWithError"}

----------------------------------------------------------------------------
(* C1 - C10 *)

\* C1: an on_event call that returns UnknownEvent, InvalidEvent, InternalError,
\* NoTransition or NoTransitionWithError leaves current as it was before the
\* call, whatever hooks are registered and whichever of them fail.
C1_ErrorLeavesCurrent ==
    (Dispatched /\ last.ret.kind \in ErrorKinds) => current = last.before

\* a leave-state callback failed on the way to another state and current stayed
C1_Witness ==
    /\ RealTransition
    /\ last.ret.kind = "InternalError"
    /\ Failed({"LeaveState"}) # {}
    /\ current = last.before

\* C2: when the table maps (event, current) to another state d and no
\* before-event or leave-state callback fails, on_event returns Ok, current
\* becomes d, and current is assigned exactly once in the call.
C2_SuccessfulTransition ==
    (RealTransition /\ Failed({"BeforeEvent", "LeaveState"}) = {})
        => /\ last.ret = Ok
           /\ current = Dst
           /\ last.writes = 1

\* a transition that went through callbacks of the before and leave phases
C2_Witness ==
    /\ RealTransition
    /\ Invoked({"BeforeEvent"}) # {}
    /\ Invoked({"LeaveState"}) # {}
    /\ Failed({"BeforeEvent", "LeaveState"}) = {}
    /\ current = Dst

\* the eight hook points of a transition from a to b by event e, in the order
\* of the phases, the targeted hook point of a phase before the untargeted one
HookPoints(e, a, b) ==
    <<CKey(e, "BeforeEvent"), CKey(Untargeted, "BeforeEvent"),
      CKey(a, "LeaveState"), CKey(Untargeted, "LeaveState"),
      CKey(b, "EnterState"), CKey(Untargeted, "EnterState"),
      CKey(e, "AfterEvent"), CKey(Untargeted, "AfterEvent")>>

\* all eight hook points of the last call have a callback
AllHookPoints ==
    \A i \in 1..8 : HookPoints(last.event, last.before, Dst)[i] \in DOMAIN callbacks

\* C3: with callbacks registered at all 8 hook points and none failing, a
\* call that moves the FSM from A to another state B by event E invokes them
\* in the order Before(E), BeforeEvent, Leave(A), LeaveState, Enter(B),
\* EnterState, After(E), AfterEvent: the callback of each hook point, once.
C3_CallbackOrder ==
    (RealTransition /\ AllHookPoints /\ Failed(CallbackType) = {})
        => /\ Len(last.calls) = 8
           /\ \A i \in 1..8 :
                 /\ last.calls[i].key = HookPoints(last.event, last.before, Dst)[i]
                 /\ last.calls[i].f = callbacks[last.calls[i].key]

\* such a call in which the eight hook points are eight different keys
C3_Witness ==
    /\ RealTransition /\ AllHookPoints /\ Failed(CallbackType) = {}
    /\ last.event # Untargeted /\ last.before # Untargeted /\ Dst # Untargeted
    /\ Cardinality({last.calls[i].f : i \in DOMAIN last.calls}) = 8

\* C4: when the table has no entry for (event, current), on_event returns
\* InvalidEvent(event, current) if some key of the table has that event name
\* and UnknownEvent(event) if none has.
C4_LookupFailure ==
    (Dispatched /\ ~Found)
        => IF \E k \in DOMAIN transitions : k.event = last.event
           THEN last.ret = InvalidEvent(last.event, last.before)
           ELSE last.ret = UnknownEvent(last.event)

\* an event that has a rule, but from another state only
C4_Witness ==
    /\ Dispatched /\ ~Found
    /\ \E k \in DOMAIN transitions : k.event = last.event
    /\ last.ret.kind = "InvalidEvent"

\* C5: if a before-event callback (Before(event) or BeforeEvent) fails,
\* on_event stops there and returns InternalError with the message of the
\* first callback that failed; current is unchanged and no leave-state,
\* enter-state or after-event callback is invoked, also when the destination
\* is the current state.
C5_BeforeFailureAborts ==
    (Dispatched /\ Failed({"BeforeEvent"}) # {})
        => /\ last.ret = InternalError(Message(last.calls[FirstFailed({"BeforeEvent"})].f))
           /\ FirstFailed({"BeforeEvent"}) = Len(last.calls)
           /\ current = last.before
           /\ Invoked({"LeaveState", "EnterState", "AfterEvent"}) = {}

\* the untargeted before-event callback fails after the targeted one
\* succeeded, on a rule that leads to the current state
C5_Witness ==
    /\ SelfTransition
    /\ Len(last.calls) = 2
    /\ Failed({"BeforeEvent"}) = {2}
    /\ last.ret.kind = "InternalError"

\* C6: if a leave-state callback (Leave(current) or LeaveState) fails during
\* a real transition, on_event returns InternalError with its message, current
\* is unchanged and no enter-state or after-event callback is invoked.
C6_LeaveFailureAborts ==
    (Dispatched /\ Failed({"LeaveState"}) # {})
        => /\ last.ret = InternalError(Message(last.calls[FirstFailed({"LeaveState"})].f))
           /\ FirstFailed({"LeaveState"}) = Len(last.calls)
           /\ current = last.before
           /\ Invoked({"EnterState", "AfterEvent"}) = {}

\* the untargeted leave-state callback fails while enter-state and after-event
\* callbacks are registered for the transition
C6_Witness ==
    /\ RealTransition /\ AllHookPoints
    /\ Failed({"LeaveState"}) # {}
    /\ last.calls[Len(last.calls)].key = CKey(Untargeted, "LeaveState")
    /\ last.before # Untargeted

\* C7: on a real transition whose before-event and leave-state phases
\* succeed, the failure of an enter-state or after-event callback is
\* swallowed: on_event returns Ok and current is the destination.
C7_LateFailureSwallowed ==
    (RealTransition /\ Failed({"BeforeEvent", "LeaveState"}) = {}
                    /\ Failed({"EnterState", "AfterEvent"}) # {})
        => /\ last.ret = Ok
           /\ current = Dst

\* an enter-state and an after-event callback fail in the same call
C7_Witness ==
    /\ RealTransition
    /\ Failed({"EnterState"}) # {}
    /\ Failed({"AfterEvent"}) # {}
    /\ last.ret = Ok /\ current = Dst

\* C8: when the rule for (event, current) leads to current and the
\* before-event phase succeeds, on_event runs the after-event phase and
\* returns NoTransition if it succeeds and NoTransitionWithError(message) if
\* an after-event callback fails; never Ok, and current is unchanged.
C8_SelfTransition ==
    (SelfTransition /\ Failed({"BeforeEvent"}) = {})
        => /\ IF Failed({"AfterEvent"}) # {}
              THEN last.ret = NoTransitionWithError(
                                  Message(last.calls[FirstFailed({"AfterEvent"})].f))
              ELSE last.ret = NoTransition
           /\ current = last.before
           /\ \A k \in {CKey(last.event, "AfterEvent"), CKey(Untargeted, "AfterEvent")} :
                 (k \in DOMAIN callbacks /\ Failed({"AfterEvent"}) = {})
                     => \E i \in Invoked({"AfterEvent"}) : last.calls[i].key = k
           /\ (\E k \in DOMAIN callbacks : k.callback_type = "AfterEvent"
                                            /\ k.target \in {last.event, Untargeted})
                 => Invoked({"AfterEvent"}) # {}

\* a self-transition whose after-event callback fails
C8_Witness ==
    /\ SelfTransition
    /\ Invoked({"BeforeEvent"}) # {} /\ Failed({"BeforeEvent"}) = {}
    /\ Failed({"AfterEvent"}) # {}
    /\ last.ret.kind = "NoTransitionWithError"

\* the states and the events that the rules given to new name
KnownStates == UNION {events[j].src \cup {events[j].dst} : j \in DOMAIN events}
KnownEvents == {events[j].name : j \in DOMAIN events}

\* the registry new would have built had hook i been h
RegistryWith(i, h) == New(initial, events, [hooks EXCEPT ![i] = h]).callbacks

\* C9: a Custom(name) hook is resolved at construction: when name is a known
\* state the FSM is the one built with Enter(name) in its place, also when
\* name is a known event too; else when name is a known event the FSM is
\* the one built with After(name) in its place; otherwise the hook is not
\* registered and no on_event call invokes its callback.
C9_CustomHook ==
    \A i \in DOMAIN hooks :
        hooks[i].kind = "Custom"
            => IF hooks[i].t \in KnownStates
               THEN callbacks = RegistryWith(i, H("Enter", hooks[i].t))
               ELSE IF hooks[i].t \in KnownEvents
               THEN callbacks = RegistryWith(i, H("After", hooks[i].t))
               ELSE /\ i \notin Registered(callbacks)
                    /\ \A j \in DOMAIN last.calls : last.calls[j].f # i

\* the callback of a Custom hook whose name is a state and an event runs when
\* the FSM enters the state
C9_Witness ==
    \E i \in DOMAIN hooks :
        /\ hooks[i].kind = "Custom"
        /\ hooks[i].t \in KnownStates \cap KnownEvents
        /\ hooks[i].t # Untargeted
        /\ \E j \in Invoked({"EnterState"}) :
              last.calls[j].f = i /\ last.calls[j].key.target = hooks[i].t

\* C10: in every reachable state can(event) is true exactly when the table
\* has the key (event, current), which is exactly when on_event(event) in
\* that state does not fail with UnknownEvent or InvalidEvent.
C10_CanAgreesWithOnEvent ==
    /\ last.op = "can"
          => (last.bool <=> \E k \in DOMAIN transitions :
                                k.event = last.event /\ k.src = current)
    /\ Dispatched
          => (can(transitions, last.before, last.event)
                  <=> last.ret.kind \notin {"UnknownEvent", "InvalidEvent"})

\* can answers false for an event that has a rule from another state, after
\* the FSM has moved
C10_Witness ==
    /\ last.op = "can"
    /\ ~last.bool
    /\ \E k \in DOMAIN transitions : k.event = last.event
    /\ current # initial

----------------------------------------------------------------------------
(* C11 - C20 *)

\* C11: after any sequence of on_event calls, is(s) answers true for exactly
\* the state s whose name get_current() returns and false for every other
\* state, and get_current() returns the name of current.
C11_IsAgreesWithGetCurrent ==
    /\ last.op = "is" => (last.bool <=> last.state = get_current(current))
    /\ last.op = "get_current" => last.state = current

\* after the FSM has moved, is answers false for the initial state
C11_Witness ==
    /\ last.op = "is"
    /\ ~last.bool
    /\ last.state = initial
    /\ current # initial

\* what an on_event call returns when no callback it invokes fails, from the
\* table, the state and the event alone
ResultOf(trs, cur, event) ==
    IF EKey(event, cur) \in DOMAIN trs
    THEN IF trs[EKey(event, cur)] = cur THEN NoTransition ELSE Ok
    ELSE IF \E k \in DOMAIN trs : k.event = event
    THEN InvalidEvent(event, cur)
    ELSE UnknownEvent(event)

\* the state such a call leaves the FSM in
StateOf(trs, cur, event) ==
    IF EKey(event, cur) \in DOMAIN trs THEN trs[EKey(event, cur)] ELSE cur

\* C12: determinism: two FSMs built from the same initial state, rules and
\* no-op hooks and fed the same events return the same results and hold the
\* same current after every call, because what a call whose callbacks all
\* return Ok returns and leaves in current is a function of the table, the
\* state before the call and the event: not of the args, of the hooks that are
\* registered, or of the calls made before.
C12_Determinism ==
    (Dispatched /\ \A i \in DOMAIN last.calls : last.calls[i].ok)
        => /\ last.ret = ResultOf(transitions, last.before, last.event)
           /\ current = StateOf(transitions, last.before, last.event)

\* a second call in a row, from the state the first call led to, with
\* callbacks that all returned Ok
C12_Witness ==
    /\ Dispatched
    /\ Found
    /\ last.before # initial
    /\ last.calls # NoCalls
    /\ \A i \in DOMAIN last.calls : last.calls[i].ok

\* hook i of the construction input applies to the last call, as its kind says
AppliesTo(i) ==
    /\ hooks[i].kind \in HookKindsTargetedEvent => last.event = hooks[i].t
    /\ hooks[i].kind = "Leave" => (RealTransition /\ last.before = hooks[i].t)
    /\ hooks[i].kind = "Enter" => (RealTransition /\ last.writes = 1 /\ Dst = hooks[i].t)

\* C13: a targeted hook applies only to its target, for every choice of state
\* and event names: the callback of a Before(e) or After(e) hook is invoked
\* during on_event(x) only if x = e, that of a Leave(s) hook only if current at
\* the start of the call is s and the call is a real transition, that of an
\* Enter(s) hook only if the call commits a transition to s.
C13_TargetedHookOnlyItsTarget ==
    Dispatched
        => \A i \in DOMAIN hooks :
               (\E j \in DOMAIN last.calls : last.calls[j].f = i) => AppliesTo(i)

\* the invocations of the last call that called the callback of hook i
InvocationsOf(i) == {j \in DOMAIN last.calls : last.calls[j].f = i}

\* C14: on a successful real transition in which no callback fails, each
\* registered untargeted hook (BeforeEvent, LeaveState, EnterState,
\* AfterEvent) is invoked exactly once, for every event name and state name.
C14_UntargetedHookOnce ==
    (RealTransition /\ last.ret = Ok /\ \A j \in DOMAIN last.calls : last.calls[j].ok)
        => \A i \in DOMAIN hooks :
               (hooks[i].kind \in HookKindsUntargeted /\ i \in Registered(callbacks))
                   => Cardinality(InvocationsOf(i)) = 1

\* the registry key that hook i of the construction input resolves to
KeyOf(i) == Resolve(hooks[i], KnownStates, KnownEvents)

\* the hooks of the input that resolve to the key k
HooksAt(k) == {i \in DOMAIN hooks : KeyOf(i) = k}

\* C15: when two hooks of the construction input resolve to the same
\* (target, phase) key, only the callback of the one that comes later in the
\* input is ever invoked for that key: the earlier one is not registered and
\* never invoked, and every invocation under a key calls the callback of the
\* last hook that resolves to it.
C15_LaterHookWins ==
    /\ \A i, j \in DOMAIN hooks :
           (i < j /\ KeyOf(i) = KeyOf(j) /\ KeyOf(i).callback_type # "None")
               => /\ i \notin Registered(callbacks)
                  /\ InvocationsOf(i) = {}
    /\ \A c \in DOMAIN last.calls :
           /\ HooksAt(last.calls[c].key) # {}
           /\ \A i \in HooksAt(last.calls[c].key) : i <= last.calls[c].f

\* Enter(s) comes before Custom(name of s) in the input, and on entering s
\* the callback of the Custom hook is the one invoked
C15_Witness ==
    \E i, j \in DOMAIN hooks :
        /\ i < j
        /\ hooks[i].kind = "Enter"
        /\ hooks[j].kind = "Custom"
        /\ hooks[i].t # Untargeted
        /\ KeyOf(i) = KeyOf(j)
        /\ InvocationsOf(j) # {}
        /\ InvocationsOf(i) = {}

\* the rules of the construction input named e that list s among their sources
RulesFor(e, s) == {i \in DOMAIN events : events[i].name = e /\ s \in events[i].src}

\* the last of them in input order
LastRuleFor(e, s) == CHOOSE i \in RulesFor(e, s) : \A j \in RulesFor(e, s) : j <= i

\* C16: after construction, on_event(e) from state s finds a transition
\* exactly when some rule named e lists s among its sources (a rule with
\* several sources gives an entry per source, each to the rule's destination),
\* and when several rules give the same (e, s) the destination used is that of
\* the last such rule in input order.
C16_TableFromRules ==
    /\ \A e \in EventNames, s \in StateNames :
           /\ EKey(e, s) \in DOMAIN transitions <=> RulesFor(e, s) # {}
           /\ RulesFor(e, s) # {}
                  => transitions[EKey(e, s)] = events[LastRuleFor(e, s)].dst
    /\ Dispatched
           => /\ last.ret.kind \notin {"UnknownEvent", "InvalidEvent"}
                     <=> RulesFor(last.event, last.before) # {}
              /\ last.ret = Ok
                     => current = events[LastRuleFor(last.event, last.before)].dst

\* two rules give the same (event, source) with different destinations, and
\* the call went to the destination of the second
C16_Witness ==
    /\ Dispatched
    /\ last.ret = Ok
    /\ \E i, j \in RulesFor(last.event, last.before) :
           /\ i < j
           /\ events[i].dst # events[j].dst
           /\ events[i].dst # last.before
           /\ current = events[j].dst

\* C17: the FSM stays usable after any error: after an on_event call that
\* fails with UnknownEvent, InvalidEvent, InternalError, NoTransition or
\* NoTransitionWithError, every on_event call made next (any event, any args,
\* no callback or any one callback failing) returns what it would have
\* returned, invokes what it would have invoked and leaves current where it
\* would have left it, had it been made in place of the failed call.
C17_UsableAfterError ==
    (Dispatched /\ last.ret.kind \in ErrorKinds)
        => \A event \in EventNames, args \in ArgValues,
              fail \in {{}} \cup {{f} : f \in Registered(callbacks)} :
               on_event(transitions, callbacks, current, event, args, fail)
                   = on_event(transitions, callbacks, last.before, event, args, fail)

\* a call failed in its leave-state phase, and the same event given again
\* with no callback failing makes the transition
C17_Witness ==
    /\ Dispatched
    /\ last.ret.kind = "InternalError"
    /\ Failed({"LeaveState"}) # {}
    /\ on_event(transitions, callbacks, current, last.event, last.args, {}).ret = Ok

\* C18: the transition table and the callback registry are fixed by new: no
\* on_event, can, is or get_current call, successful or failed, adds, removes
\* or changes a table entry or a registered callback, and current is changed
\* by on_event calls only.
C18_TableAndRegistryFixed ==
    [][/\ transitions' = transitions
       /\ callbacks' = callbacks
       /\ current' # current => last'.op = "on_event"]_vars

\* a call has invoked callbacks and moved the FSM, and the table and the
\* registry are those that new built
C18_Witness ==
    /\ Dispatched
    /\ last.ret = Ok
    /\ current # last.before
    /\ last.calls # NoCalls
    /\ transitions = New(initial, events, hooks).transitions
    /\ callbacks = New(initial, events, hooks).callbacks

\* C19: every callback invoked during one on_event call receives the same
\* transition event: the event passed to the call, src the current state at
\* the start of the call, dst the destination looked up, and the call's args;
\* the enter-state and after-event callbacks, which run after the commit,
\* still see src as the state before the transition.
C19_SameEventForEveryCallback ==
    Dispatched
        => \A i \in DOMAIN last.calls :
               last.calls[i].e = Event(last.event, last.before, Dst, last.args)

\* after the commit an enter-state and an after-event callback were invoked
\* with args, and their src is the state before, which current is no longer
C19_Witness ==
    /\ RealTransition
    /\ last.args = "Some"
    /\ \E i \in Invoked({"EnterState"}), j \in Invoked({"AfterEvent"}) :
           /\ last.calls[i].e.src = last.before
           /\ last.calls[j].e.src = last.before
           /\ last.calls[i].cur # last.before
           /\ last.calls[i].e.args = "Some"
    /\ current # last.before

\* C20: the commit point lies between the leave-state and the enter-state
\* phase: whenever a before-event or leave-state callback is running, current
\* still equals the source state, and whenever an enter-state or after-event
\* callback of a real transition is running, current already equals the
\* destination state.
C20_CommitPoint ==
    Dispatched
        => /\ \A i \in Invoked({"BeforeEvent", "LeaveState"}) :
                  last.calls[i].cur = last.before
           /\ RealTransition
                  => \A i \in Invoked({"EnterState", "AfterEvent"}) :
                         last.calls[i].cur = Dst

\* the four phases of a real transition ran: the first two in the source
\* state, the last two in the destination state
C20_Witness ==
    /\ RealTransition
    /\ \E i \in Invoked({"LeaveState"}) : last.calls[i].cur = last.before
    /\ \E i \in Invoked({"BeforeEvent"}) : last.calls[i].cur = last.before
    /\ \E i \in Invoked({"EnterState"}) : last.calls[i].cur = Dst
    /\ \E i \in Invoked({"AfterEvent"}) : last.calls[i].cur = Dst

----------------------------------------------------------------------------
(* C21 - C28 *)

\* C21: an on_event call that fails at the lookup (UnknownEvent or
\* InvalidEvent) invokes no callback at all, not even Before(event) or
\* BeforeEvent.
C21_LookupFailureInvokesNothing ==
    (Dispatched /\ (~Found \/ last.ret.kind \in {"UnknownEvent", "InvalidEvent"}))
        => last.calls = NoCalls

\* the lookup failed although a callback is registered for the event's
\* before-event key and one for the untargeted before-event key
C21_Witness ==
    /\ Dispatched
    /\ last.ret.kind \in {"UnknownEvent", "InvalidEvent"}
    /\ last.event # Untargeted
    /\ CKey(last.event, "BeforeEvent") \in DOMAIN callbacks
    /\ CKey(Untargeted, "BeforeEvent") \in DOMAIN callbacks
    /\ last.calls = NoCalls

\* the four hook points of a call of event e that makes no transition, in order
SelfHookPoints(e) ==
    <<CKey(e, "BeforeEvent"), CKey(Untargeted, "BeforeEvent"),
      CKey(e, "AfterEvent"), CKey(Untargeted, "AfterEvent")>>

\* C22: in a self-transition call (the destination looked up equals current)
\* the only callbacks that can be invoked are those of Before(event),
\* BeforeEvent, After(event), AfterEvent, in this order: the invocations are
\* made at some of these four hook points in increasing order, and no
\* callback of a Leave, LeaveState, Enter or EnterState hook is invoked.
C22_SelfTransitionCallbacks ==
    SelfTransition
        => /\ \E g \in [DOMAIN last.calls -> 1..4] :
                  /\ \A i, j \in DOMAIN last.calls : i < j => g[i] < g[j]
                  /\ \A i \in DOMAIN last.calls :
                         last.calls[i].key = SelfHookPoints(last.event)[g[i]]
           /\ \A i \in DOMAIN last.calls :
                  /\ hooks[last.calls[i].f].kind
                         \notin HookKindsTargetedState \cup {"LeaveState", "EnterState"}
                  /\ KeyOf(last.calls[i].f).callback_type \in {"BeforeEvent", "AfterEvent"}

\* a self-transition from a state that has Leave, LeaveState, Enter and
\* EnterState callbacks, in which only the four callbacks of the event ran
C22_Witness ==
    /\ SelfTransition
    /\ last.event # Untargeted
    /\ Len(last.calls) = 4
    /\ \A t \in {last.before, Untargeted} :
           /\ CKey(t, "LeaveState") \in DOMAIN callbacks
           /\ CKey(t, "EnterState") \in DOMAIN callbacks

\* the last call made an invocation under the registry key k
InvokedAt(k) == \E i \in DOMAIN last.calls : last.calls[i].key = k

\* the last call committed a transition and its enter-state phase failed
EnterFailedAfterCommit ==
    RealTransition /\ last.writes = 1 /\ Failed({"EnterState"}) # {}

\* C23, as stated: after a commit, a failure in the enter-state phase does not
\* prevent the after-event phase: After(event) and AfterEvent, when
\* registered, are still invoked in the same call even if Enter(destination)
\* or EnterState failed.
C23_AfterPhaseAfterEnterFailure ==
    EnterFailedAfterCommit
        => \A k \in {CKey(last.event, "AfterEvent"), CKey(Untargeted, "AfterEvent")} :
               k \in DOMAIN callbacks => InvokedAt(k)

\* C23, amended: after a commit in which Enter(destination) or EnterState
\* failed, After(event), when registered, is still invoked in the same call,
\* and AfterEvent, when registered, is still invoked unless the After(event)
\* callback was invoked and failed.
C23_AfterPhaseUnlessAfterFails ==
    EnterFailedAfterCommit
        => /\ CKey(last.event, "AfterEvent") \in DOMAIN callbacks
                  => InvokedAt(CKey(last.event, "AfterEvent"))
           /\ (/\ CKey(Untargeted, "AfterEvent") \in DOMAIN callbacks
               /\ \A i \in Failed({"AfterEvent"}) :
                      last.calls[i].key # CKey(last.event, "AfterEvent"))
                  => InvokedAt(CKey(Untargeted, "AfterEvent"))

\* the enter-state phase failed after the commit and both after-event
\* callbacks, under two different keys, were invoked all the same
C23_Witness ==
    /\ EnterFailedAfterCommit
    /\ last.event # Untargeted
    /\ InvokedAt(CKey(last.event, "AfterEvent"))
    /\ InvokedAt(CKey(Untargeted, "AfterEvent"))

\* the name the targeted key of phase p of the last call is made of
TargetOf(p) ==
    CASE p \in {"BeforeEvent", "AfterEvent"} -> last.event
      [] p = "LeaveState" -> last.before
      [] p = "EnterState" -> Dst

\* C24: in each of the four phases, if the targeted callback of the phase
\* fails, the untargeted callback of the same phase is not invoked in that
\* call: the failed invocation is the only one of its phase.  This holds for
\* the enter-state and after-event phases, which run after the commit, as it
\* does for the before-event and leave-state phases.
C24_TargetedFailureSkipsUntargeted ==
    Dispatched
        => \A p \in {"BeforeEvent", "LeaveState", "EnterState", "AfterEvent"} :
               \A i \in Failed({p}) :
                   (/\ last.calls[i].key = CKey(TargetOf(p), p)
                    /\ \A j \in Invoked({p}) : i <= j)
                       => Invoked({p}) = {i}

\* after the commit the callback of Enter(destination) failed, the callback
\* registered for EnterState was not invoked, and the after-event phase ran
C24_Witness ==
    /\ RealTransition
    /\ last.writes = 1
    /\ Dst # Untargeted
    /\ CKey(Untargeted, "EnterState") \in DOMAIN callbacks
    /\ \E i \in Failed({"EnterState"}) : last.calls[i].key = CKey(Dst, "EnterState")
    /\ ~InvokedAt(CKey(Untargeted, "EnterState"))
    /\ Invoked({"AfterEvent"}) # {}

\* C25: on_event returns Ok exactly when it changed current: a call returns
\* Ok if and only if current after the call differs from current before the
\* call, and then the new current is the table's destination for
\* (event, old current).
C25_OkIffCurrentChanged ==
    Dispatched
        => /\ last.ret = Ok <=> current # last.before
           /\ last.ret = Ok
                  => /\ EKey(last.event, last.before) \in DOMAIN transitions
                     /\ current = transitions[EKey(last.event, last.before)]

\* a call returned Ok and moved the FSM on to the table's destination, from a
\* state an earlier call had moved it to
C25_Witness ==
    /\ Dispatched
    /\ last.ret = Ok
    /\ last.before # initial
    /\ current # last.before
    /\ current = transitions[EKey(last.event, last.before)]

\* C26: in every reachable state, current is either the initial state given
\* to new or the destination of some transition rule given to new.
C26_CurrentIsInitialOrDestination ==
    \/ current = initial
    \/ \E i \in DOMAIN events : current = events[i].dst

\* current is the destination of the second rule: not the initial state and
\* not the destination of the first rule
C26_Witness ==
    /\ Len(events) = 2
    /\ current = events[2].dst
    /\ current # initial
    /\ current # events[1].dst
    /\ Dispatched
    /\ last.before = events[1].dst

Queries == {"get_current", "is", "can"}

\* C27: the query operations get_current, is and can are pure: a call of one
\* of them invokes no callback and leaves current, the transition table and
\* the callback registry unchanged, so that calling them any number of times
\* between on_event calls does not change the result of any on_event call.
C27_QueriesArePure ==
    [][last'.op \in Queries
          => /\ last'.calls = NoCalls
             /\ current' = current
             /\ transitions' = transitions
             /\ callbacks' = callbacks]_vars

\* after the FSM has moved, can answers true for an event that has a
\* before-event callback, and no callback was invoked
C27_Witness ==
    /\ last.op = "can"
    /\ last.bool
    /\ current # initial
    /\ CKey(last.event, "BeforeEvent") \in DOMAIN callbacks
    /\ last.calls = NoCalls
    /\ current = last.before

\* the values an on_event call on the FSM can return: Ok(()) and the values
\* of FSMError that carry the call's event and state or a callback's message
Outcomes(event, cur) ==
    {Ok, NoTransition, UnknownEvent(event), InvalidEvent(event, cur)}
    \cup {InternalError(Message(f)) : f \in Registered(callbacks)}
    \cup {NoTransitionWithError(Message(f)) : f \in Registered(callbacks)}

\* C28: every on_event call, for any event name (known or not) and any
\* current state, completes with exactly one outcome out of Ok, UnknownEvent,
\* InvalidEvent, InternalError, NoTransition and NoTransitionWithError,
\* provided each invoked callback returns; there is no stuck or panicking
\* dispatch state: whenever no call is under way, every event can be
\* dispatched.
C28_EveryCallCompletes ==
    /\ Dispatched
           => /\ last.ret \in Outcomes(last.event, last.before)
              /\ last.ret.kind \in ErrorKinds \cup {"Ok"}
    /\ last = Idle
           => \A event \in EventNames :
                  ENABLED (\E args \in ArgValues, fail \in FailSets(callbacks) :
                               OnEvent(event, args, fail))

\* a call of an event that no rule names, in a state that no rule names,
\* completed with UnknownEvent
C28_Witness ==
    /\ Dispatched
    /\ last.event \notin KnownEvents
    /\ last.before \notin KnownStates
    /\ events # <<>>
    /\ last.ret = UnknownEvent(last.event)

====
